---- MODULE Spec2Model ----
(***************************************************************************)
(* Model of the Netflix search API: the /search handler (validation,       *)
(* the lru_cache around search_with_filters, the filter and the            *)
(* pagination), the home, stats, metrics and health handlers, and the      *)
(* application factory that installs the table.                            *)
(*                                                                         *)
(* Text is a sequence of one-character strings.  The character "sz"        *)
(* stands for U+00DF (sharp s): str.lower() leaves it alone and            *)
(* str.upper() turns it into the two characters "S" "S".                   *)
(***************************************************************************)
EXTENDS Integers, Sequences, FiniteSets, TLC

\* DF, DF_ID   app.config["DF"] as [loaded, rows] and app.config["DF_ID"]
\* cache       the entries of the lru_cache, least recently used first
\* hits,misses the counters of the lru_cache (cache_info)
\* pc          per worker thread: "idle", "computing" (inside
\*             search_with_filters after a miss) or "done" (response ready)
\* req,key,resp per worker thread: the request, the key of its call, the response
\* session,acc a paging client: its query and last page asked, the rows received
\* view        the response of the home, stats, metrics or health request being
\*             answered, NoView when there is none
\* validated   history: the search requests that passed validation so far
\* touched     history: the keys looked up or stored so far as [k, how], how the
\*             kind of the latest access ("insert" or "hit"), in the order of
\*             their latest accesses
VARIABLES DF, DF_ID, cache, hits, misses, pc, req, key, resp, session, acc,
          view, validated, touched

vars == <<DF, DF_ID, cache, hits, misses, pc, req, key, resp, session, acc,
          view, validated, touched>>

(***************************************************************************)
(* Bounds of the model.                                                    *)
(***************************************************************************)
\* capacity of the lru_cache, scaled down from the 256 of routes.py:53
maxsize == 2
\* validated search requests (hits + misses) one behaviour may make
MaxCalls == 3
\* pages a paging client asks for, one after the other
MaxPage == 4
\* rows of value_counts() that stats keeps, scaled down from the 10 of
\* routes.py:206
TopGenres == 2
\* validated search requests one behaviour of the monitored service may make
MaxSearches == 4
\* search requests passing validation in one behaviour of the validation model
MaxValid == 2

(***************************************************************************)
(* Program constants.                                                      *)
(***************************************************************************)
max_length == 100
DefaultPage == 1
DefaultLimit == 20
MaxLimit == 100

Procs == {1, 2}
\* addresses id(df) can take; an address is free again once its table is gone
Addrs == {1, 2}

\* Python's None, as a text no request can carry
None == <<"None">>

RECURSIVE Concat(_)
Concat(ss) == IF ss = <<>> THEN <<>> ELSE Head(ss) \o Concat(Tail(ss))

SeqMap(F(_), s) == [i \in 1..Len(s) |-> F(s[i])]

(***************************************************************************)
(* str.lower(), str.upper(), str.strip() and the spec's case folding.      *)
(***************************************************************************)
LowerChar(c) ==
    CASE c = "A" -> "a"
      [] c = "B" -> "b"
      [] c = "S" -> "s"
      [] OTHER -> c

UpperChar(c) ==
    CASE c = "a" -> <<"A">>
      [] c = "b" -> <<"B">>
      [] c = "s" -> <<"S">>
      [] c = "sz" -> <<"S", "S">>
      [] OTHER -> <<c>>

\* str.casefold(): as lower(), and the sharp s becomes "ss"
FoldChar(c) ==
    IF c = "sz" THEN <<"s", "s">> ELSE <<LowerChar(c)>>

lower(s) == SeqMap(LowerChar, s)
upper(s) == Concat(SeqMap(UpperChar, s))
casefold(s) == Concat(SeqMap(FoldChar, s))

RECURSIVE lstrip(_)
lstrip(s) ==
    IF s # <<>> /\ Head(s) = " " THEN lstrip(Tail(s)) ELSE s

RECURSIVE rstrip(_)
rstrip(s) ==
    IF s # <<>> /\ s[Len(s)] = " " THEN rstrip(SubSeq(s, 1, Len(s) - 1)) ELSE s

strip(s) == rstrip(lstrip(s))

\* Python truthiness of an optional text: neither None nor ""
Truthy(v) == v # None /\ v # <<>>

(***************************************************************************)
(* int(text): surrounding blanks, an optional sign, then digits.           *)
(***************************************************************************)
Digits == {"0", "1", "2", "3", "4", "5", "6", "7", "8", "9"}

DigitVal(c) ==
    CASE c = "0" -> 0 [] c = "1" -> 1 [] c = "2" -> 2 [] c = "3" -> 3
      [] c = "4" -> 4 [] c = "5" -> 5 [] c = "6" -> 6 [] c = "7" -> 7
      [] c = "8" -> 8 [] OTHER -> 9

RECURSIVE DecVal(_)
DecVal(s) ==
    IF s = <<>> THEN 0 ELSE 10 * DecVal(SubSeq(s, 1, Len(s) - 1)) + DigitVal(s[Len(s)])

IsDec(s) == s # <<>> /\ \A i \in 1..Len(s) : s[i] \in Digits

\* the digits d, negated when negative; [ok |-> FALSE] stands for ValueError
IntDigits(d, negative) ==
    IF ~IsDec(d) THEN [ok |-> FALSE, val |-> 0]
    ELSE [ok |-> TRUE, val |-> IF negative THEN 0 - DecVal(d) ELSE DecVal(d)]

IntSigned(t) ==
    IF t # <<>> /\ Head(t) \in {"-", "+"}
    THEN IntDigits(Tail(t), Head(t) = "-")
    ELSE IntDigits(t, FALSE)

int(text) == IntSigned(strip(text))

(***************************************************************************)
(* Validation of the request parameters.                                   *)
(***************************************************************************)
\* err = "" when the value is accepted; val is then None or the trimmed text
\* lines 26-32, on the trimmed value v
CheckText(v) ==
    IF v = <<>> THEN [err |-> "cannot be empty", val |-> None]
    ELSE IF Len(v) > max_length
         THEN [err |-> "exceeds maximum length", val |-> None]
         ELSE [err |-> "", val |-> v]

validate_search_param(value) ==
    IF ~Truthy(value) THEN [err |-> "", val |-> None] ELSE CheckText(strip(value))

\* int(text) if text else default
IntOr(text, default) ==
    IF Truthy(text) THEN int(text) ELSE [ok |-> TRUE, val |-> default]

\* lines 40-49, on the two conversions p and l
CheckPagination(p, l) ==
    IF ~p.ok \/ ~l.ok
    THEN [err |-> "Page and limit must be integers", page |-> 0, limit |-> 0]
    ELSE IF p.val < 1
         THEN [err |-> "Page must be >= 1", page |-> 0, limit |-> 0]
         ELSE IF l.val < 1 \/ l.val > MaxLimit
              THEN [err |-> "Limit must be between 1 and 100", page |-> 0, limit |-> 0]
              ELSE [err |-> "", page |-> p.val, limit |-> l.val]

validate_pagination(page, limit) ==
    CheckPagination(IntOr(page, DefaultPage), IntOr(limit, DefaultLimit))

(***************************************************************************)
(* The filter: polars str.contains(pattern, literal=False) is a regular    *)
(* expression search.  Over the characters of the model a pattern is a     *)
(* run of literals and of "." (any character); "(" opens a group that      *)
(* nothing can close, so a pattern holding one does not compile.           *)
(***************************************************************************)
PatternError(pattern) == \E i \in 1..Len(pattern) : pattern[i] = "("

contains(text, pattern) ==
    \E i \in 0..(Len(text) - Len(pattern)) :
        \A j \in 1..Len(pattern) : pattern[j] = "." \/ pattern[j] = text[i + j]

\* one lf.filter(...) of search_with_filters; an absent predicate filters nothing
FilterBy(rows, column, predicate) ==
    IF ~Truthy(predicate) THEN rows
    ELSE LET Keep(row) == contains(lower(row[column]), lower(predicate))
         IN  SelectSeq(rows, Keep)

FilterRows(rows, actor, director, genre) ==
    FilterBy(FilterBy(FilterBy(rows, "cast", actor), "director", director),
             "listed_in", genre)

(***************************************************************************)
(* Pagination.                                                             *)
(***************************************************************************)
Min(a, b) == IF a < b THEN a ELSE b

\* Offset counting pages from 0
Offset_from_zero(page, limit) == page * limit

Offset(page, limit) == (page - 1) * limit

\* Slice without its length
Slice_to_end(rows, offset, length) ==
    SubSeq(rows, offset + 1, Len(rows))

\* LazyFrame.slice(offset, length): the rows at offset .. offset+length-1 that exist
Slice(rows, offset, length) ==
    SubSeq(rows, offset + 1, Min(Len(rows), offset + length))

\* PageCount rounding down
PageCount_floor(total, limit) ==
    IF total > 0 THEN total \div limit ELSE 0

PageCount(total, limit) ==
    IF total > 0 THEN (total + limit - 1) \div limit ELSE 0

(***************************************************************************)
(* Responses.  status 0 is "no response"; the body fields are zero in an   *)
(* error response, and allowed_params is empty in every response but the   *)
(* one that refuses an unknown parameter.                                  *)
(***************************************************************************)
ErrorResp(status, error) ==
    [status |-> status, error |-> error, results |-> <<>>,
     total |-> 0, page |-> 0, limit |-> 0, pages |-> 0, allowed_params |-> {}]

NoResp == ErrorResp(0, "")

\* lines 78-99: the dict returned for the filtered rows lf
Result(lf, page, limit) ==
    [status |-> 200, error |-> "",
     results |-> Slice(lf, Offset(page, limit), limit),
     total |-> Len(lf), page |-> page, limit |-> limit,
     pages |-> PageCount(Len(lf), limit), allowed_params |-> {}]

\* DF is [loaded, rows]; get_df raises RuntimeError when the table is absent
get_df(df) == df.loaded

\* the body of search_with_filters on the table df: what it returns (status
\* 200) or, as the status search() answers with, what it raises
Compute(df, actor, director, genre, page, limit) ==
    IF ~get_df(df) THEN ErrorResp(503, "Dataset unavailable")
    ELSE IF \E p \in {actor, director, genre} : Truthy(p) /\ PatternError(lower(p))
         THEN ErrorResp(500, "Internal server error")
         ELSE Result(FilterRows(df.rows, actor, director, genre), page, limit)

(***************************************************************************)
(* The lru_cache around search_with_filters.  cache is the sequence of     *)
(* entries [k, v] from the least to the most recently used one.            *)
(***************************************************************************)
InCache(c, k) == \E i \in 1..Len(c) : c[i].k = k

CacheValue(c, k) == c[CHOOSE i \in 1..Len(c) : c[i].k = k].v

\* the positional arguments of the call, which lru_cache compares with ==
MakeKey(actor, director, genre, page, limit, df_id) ==
    <<actor, director, genre, page, limit, df_id>>

\* lru_hit with the hit booked as a miss
lru_hit_as_miss(c, h, m, k) ==
    LET IsNot(e) == e.k # k
    IN  [cache |-> Append(SelectSeq(c, IsNot), [k |-> k, v |-> CacheValue(c, k)]),
         hits |-> h, misses |-> m + 1]

\* lru_hit that leaves the entry where it is
lru_hit_in_place(c, h, m, k) == [cache |-> c, hits |-> h + 1, misses |-> m]

\* a hit: the entry becomes the most recently used one and hits is counted
lru_hit(c, h, m, k) ==
    LET IsNot(e) == e.k # k
    IN  [cache |-> Append(SelectSeq(c, IsNot), [k |-> k, v |-> CacheValue(c, k)]),
         hits |-> h + 1, misses |-> m]

\* lru_miss with the count lost
lru_miss_uncounted(c, h, m, k) == [cache |-> c, hits |-> h, misses |-> m]

\* a miss: counted before the wrapped function is called
lru_miss(c, h, m, k) == [cache |-> c, hits |-> h, misses |-> m + 1]

\* lru_store that does not look whether the key was stored meanwhile
lru_store_again(c, k, v) ==
    IF Len(c) < maxsize THEN Append(c, [k |-> k, v |-> v])
    ELSE Append(Tail(c), [k |-> k, v |-> v])

\* lru_store that never evicts
lru_store_unbounded(c, k, v) ==
    IF InCache(c, k) THEN c ELSE Append(c, [k |-> k, v |-> v])

\* after the call returned v: nothing to do when the key was stored meanwhile,
\* otherwise the new entry goes in, in place of the oldest when the cache is full
lru_store(c, k, v) ==
    IF InCache(c, k) THEN c
    ELSE IF Len(c) < maxsize THEN Append(c, [k |-> k, v |-> v])
         ELSE Append(Tail(c), [k |-> k, v |-> v])

(***************************************************************************)
(* search(): a request r is [actor, director, genre, page, limit, extra],  *)
(* each of the five a text or None (parameter absent), extra whether the   *)
(* query string carries a parameter outside the allowed five.              *)
(***************************************************************************)
NoArgs == [err |-> "", actor |-> None, director |-> None, genre |-> None,
           page |-> 0, limit |-> 0]

\* lines 150-159: the first of the four validations to raise decides
FirstError(a, d, g, pl) ==
    IF a.err # "" THEN [NoArgs EXCEPT !.err = a.err]
    ELSE IF d.err # "" THEN [NoArgs EXCEPT !.err = d.err]
    ELSE IF g.err # "" THEN [NoArgs EXCEPT !.err = g.err]
    ELSE IF pl.err # "" THEN [NoArgs EXCEPT !.err = pl.err]
    ELSE [err |-> "", actor |-> a.val, director |-> d.val, genre |-> g.val,
          page |-> pl.page, limit |-> pl.limit]

\* Validate with the unknown parameters looked at after the predicates
Validate_required_first(r) ==
    IF ~(Truthy(r.actor) \/ Truthy(r.director) \/ Truthy(r.genre))
    THEN [NoArgs EXCEPT !.err = "At least one search parameter required"]
    ELSE IF r.extra THEN [NoArgs EXCEPT !.err = "Unsupported query parameter(s)"]
    ELSE FirstError(validate_search_param(r.actor),
                    validate_search_param(r.director),
                    validate_search_param(r.genre),
                    validate_pagination(r.page, r.limit))

\* Validate without the check that a predicate is supplied
Validate_any(r) ==
    IF r.extra THEN [NoArgs EXCEPT !.err = "Unsupported query parameter(s)"]
    ELSE FirstError(validate_search_param(r.actor),
                    validate_search_param(r.director),
                    validate_search_param(r.genre),
                    validate_pagination(r.page, r.limit))

\* lines 132-159: the checks in the order the handler makes them
Validate(r) ==
    IF r.extra THEN [NoArgs EXCEPT !.err = "Unsupported query parameter(s)"]
    ELSE IF ~(Truthy(r.actor) \/ Truthy(r.director) \/ Truthy(r.genre))
    THEN [NoArgs EXCEPT !.err = "At least one search parameter required"]
    ELSE FirstError(validate_search_param(r.actor),
                    validate_search_param(r.director),
                    validate_search_param(r.genre),
                    validate_pagination(r.page, r.limit))

Valid(r) == Validate(r).err = ""

\* the key of the call made with the validated arguments a
KeyFrom(a, df_id) == MakeKey(a.actor, a.director, a.genre, a.page, a.limit, df_id)

KeyOf(r, df_id) == KeyFrom(Validate(r), df_id)

NoKey == <<>>

\* the call search_with_filters(*k) as far as lru_cache answers it
Lookup(k, c, h, m) ==
    IF InCache(c, k)
    THEN [resp |-> CacheValue(c, k), key |-> k, lru |-> lru_hit(c, h, m, k)]
    ELSE [resp |-> NoResp, key |-> k, lru |-> lru_miss(c, h, m, k)]

allowed_params == {"actor", "director", "genre", "page", "limit"}

\* the 400 for the validation error err; the one for an unknown parameter
\* carries the allowed set (lines 136-141)
Refusal(err) ==
    IF err = "Unsupported query parameter(s)"
    THEN [ErrorResp(400, err) EXCEPT !.allowed_params = allowed_params]
    ELSE ErrorResp(400, err)

\* Answer with the cache consulted although the pagination did not validate
Answer_lookup_first(a, df_id, c, h, m) ==
    IF a.err # ""
    THEN [resp |-> Refusal(a.err), key |-> NoKey,
          lru |-> IF a.err \in {"Page must be >= 1", "Limit must be between 1 and 100"}
                  THEN lru_miss(c, h, m, KeyFrom(a, df_id))
                  ELSE [cache |-> c, hits |-> h, misses |-> m]]
    ELSE Lookup(KeyFrom(a, df_id), c, h, m)

\* lines 161-174 for the outcome a of the validation: a 400, or the cached call
Answer(a, df_id, c, h, m) ==
    IF a.err # ""
    THEN [resp |-> Refusal(a.err), key |-> NoKey,
          lru |-> [cache |-> c, hits |-> h, misses |-> m]]
    ELSE Lookup(KeyFrom(a, df_id), c, h, m)

\* search() up to the point where the wrapped function starts to run: the
\* answer (status 0: none yet), the key of the call and the cache after it
search(r, df_id, c, h, m) == Answer(Validate(r), df_id, c, h, m)

(***************************************************************************)
(* home(), stats(), metrics() and health().  A response to one of them is  *)
(* [endpoint, status] and the fields of its body the model keeps: the      *)
(* cache_info numbers of metrics, the counts and top_genres of stats, the  *)
(* records_count of health.  Timestamps and the hit rate, which is         *)
(* computed from hits and misses, are left out.                            *)
(***************************************************************************)
NoView == [endpoint |-> "", status |-> 0, hits |-> 0, misses |-> 0, size |-> 0,
           maxsize |-> 0, records |-> 0, movies |-> 0, tv_shows |-> 0,
           year_min |-> 0, year_max |-> 0, top_genres |-> <<>>]

View(endpoint, status) == [NoView EXCEPT !.endpoint = endpoint, !.status = status]

home == View("home", 200)

\* search_with_filters.cache_info()
cache_info(c, h, m) == [hits |-> h, misses |-> m, currsize |-> Len(c), maxsize |-> maxsize]

MetricsBody(info) ==
    [View("metrics", 200) EXCEPT !.hits = info.hits, !.misses = info.misses,
                                 !.size = info.currsize, !.maxsize = info.maxsize]

metrics(c, h, m) == MetricsBody(cache_info(c, h, m))

health(df) ==
    IF get_df(df) THEN [View("health", 200) EXCEPT !.records = Len(df.rows)]
    ELSE View("health", 503)

\* the first place at or after i where sep stands in text, 0 when there is none
RECURSIVE Find(_, _, _)
Find(text, sep, i) ==
    IF i + Len(sep) - 1 > Len(text) THEN 0
    ELSE IF SubSeq(text, i, i + Len(sep) - 1) = sep THEN i
         ELSE Find(text, sep, i + 1)

\* the rest of text from place i on
From(text, i) == SubSeq(text, i, Len(text))

\* text cut at the separator that stands at place at (0: no separator left)
RECURSIVE split(_, _)
SplitAt(text, sep, at) ==
    IF at = 0 THEN <<text>>
    ELSE <<SubSeq(text, 1, at - 1)>> \o split(From(text, at + Len(sep)), sep)

\* str.split(sep): the pieces of text between the separators, "" included
split(text, sep) == SplitAt(text, sep, Find(text, sep, 1))

GenreSeparator == <<",", " ">>

\* select("listed_in").to_series().str.split(", ").explode(): the token stream
RECURSIVE explode(_)
explode(rows) ==
    IF rows = <<>> THEN <<>>
    ELSE split(Head(rows).listed_in, GenreSeparator) \o explode(Tail(rows))

Count(tokens, t) == Cardinality({i \in 1..Len(tokens) : tokens[i] = t})

Unique(tokens) == {tokens[i] : i \in 1..Len(tokens)}

\* the orders value_counts() can hand the distinct values out in: sort is
\* False, so the order of the output is any order
Orders(values) ==
    {o \in [1..Cardinality(values) -> values] :
        \A i, j \in 1..Cardinality(values) : o[i] = o[j] => i = j}

\* value_counts(): one row per distinct token, in the order the run came up with
value_counts(tokens, order) ==
    [i \in 1..Len(order) |-> [listed_in |-> order[i], count |-> Count(tokens, order[i])]]

\* head(n)
head(s, n) == SubSeq(s, 1, Min(Len(s), n))

Having(rows, type) == Cardinality({i \in 1..Len(rows) : rows[i].type = type})

Years(rows) == {rows[i].release_year : i \in 1..Len(rows)}

\* lines 193-208 on the rows of the table
StatsBody(rows, order) ==
    [View("stats", 200) EXCEPT
        !.records = Len(rows),
        !.movies = Having(rows, "Movie"),
        !.tv_shows = Having(rows, "TV Show"),
        !.year_min = CHOOSE y \in Years(rows) : \A z \in Years(rows) : y <= z,
        !.year_max = CHOOSE y \in Years(rows) : \A z \in Years(rows) : y >= z,
        !.top_genres = head(value_counts(explode(rows), order), TopGenres)]

\* stats(): min() of an empty column is None and int(None) raises, and so
\* does get_df() without a table; every exception is answered 500
stats(df, order) ==
    IF ~get_df(df) \/ df.rows = <<>> THEN View("stats", 500)
    ELSE StatsBody(df.rows, order)

(***************************************************************************)
(* Actions.                                                                *)
(***************************************************************************)
NoReq == [actor |-> None, director |-> None, genre |-> None,
          page |-> None, limit |-> None, extra |-> FALSE]

\* the state after thread p got s from search() for request r
Taken(p, r, s) ==
    /\ cache' = s.lru.cache
    /\ hits' = s.lru.hits
    /\ misses' = s.lru.misses
    /\ req' = [req EXCEPT ![p] = r]
    /\ key' = [key EXCEPT ![p] = s.key]
    /\ resp' = [resp EXCEPT ![p] = s.resp]
    /\ pc' = [pc EXCEPT ![p] = IF s.resp.status = 0 THEN "computing" ELSE "done"]

\* a worker thread takes request r: validation, then the cache lookup
Search(p, r) ==
    /\ pc[p] = "idle"
    /\ Taken(p, r, search(r, DF_ID, cache, hits, misses))
    /\ UNCHANGED <<DF, DF_ID>>

\* search_with_filters(*k) on the table df
Call(df, k) == Compute(df, k[1], k[2], k[3], k[4], k[5])

\* Returned with whatever the call ended with stored, a failure too
Returned_kept(p, k, out) ==
    /\ cache' = lru_store(cache, k, out)
    /\ resp' = [resp EXCEPT ![p] = out]

\* the state after the call of thread p with key k ended with out
Returned(p, k, out) ==
    /\ cache' = IF out.status = 200 THEN lru_store(cache, k, out) ELSE cache
    /\ resp' = [resp EXCEPT ![p] = out]

\* the wrapped function runs on the table of the application and, when it
\* returns, lru_cache stores the result; an exception stores nothing
Run(p) ==
    /\ pc[p] = "computing"
    /\ Returned(p, key[p], Call(DF, key[p]))
    /\ pc' = [pc EXCEPT ![p] = "done"]
    /\ UNCHANGED <<DF, DF_ID, hits, misses, req, key>>

\* the response has been sent
Finish(p) ==
    /\ pc[p] = "done"
    /\ pc' = [pc EXCEPT ![p] = "idle"]
    /\ req' = [req EXCEPT ![p] = NoReq]
    /\ key' = [key EXCEPT ![p] = NoKey]
    /\ resp' = [resp EXCEPT ![p] = NoResp]
    /\ UNCHANGED <<DF, DF_ID, cache, hits, misses>>

\* no request is in flight; a request in flight holds on to its application
\* and so to its table, which is why the table changes only between requests
Quiet == \A p \in Procs : pc[p] = "idle"

\* create_app() in the same process, the application before it dropped: a new
\* table at whatever address the allocator hands out, which may be the one
\* the collected table had; the module-level cache lives on
create_app(rows, address) ==
    /\ Quiet
    /\ DF' = [loaded |-> TRUE, rows |-> rows]
    /\ DF_ID' = address
    /\ UNCHANGED <<cache, hits, misses, pc, req, key, resp>>

\* the table goes away (config["DF"] is None) while DF_ID stays
DropTable ==
    /\ Quiet
    /\ DF.loaded
    /\ DF' = [loaded |-> FALSE, rows |-> <<>>]
    /\ UNCHANGED <<DF_ID, cache, hits, misses, pc, req, key, resp>>

(***************************************************************************)
(* The tables and the requests of the model.                               *)
(***************************************************************************)
Row(title, cast, director, listed_in) ==
    [title |-> title, cast |-> cast, director |-> director, listed_in |-> listed_in]

TableA == << Row(1, <<"a">>, <<"b">>, <<"a">>),
             Row(2, <<"A", "b">>, <<"b">>, <<"b">>) >>

TableB == << Row(3, <<"b">>, <<"a">>, <<"a">>) >>

Tables == {TableA, TableB}

LongText == [i \in 1..(max_length + 1) |-> "a"]

Req(actor, director, genre, page, limit, extra) ==
    [actor |-> actor, director |-> director, genre |-> genre,
     page |-> page, limit |-> limit, extra |-> extra]

ValidRequests ==
    { Req(<<"a">>, None, None, None, None, FALSE),
      Req(<<"A">>, None, None, None, None, FALSE),
      Req(<<" ", "a">>, None, None, <<"1">>, <<"2", "0">>, FALSE),
      Req(<<>>, <<"b">>, None, <<"2">>, <<"1">>, FALSE) }

InvalidRequests ==
    { Req(<<"a">>, None, None, None, None, TRUE),
      Req(None, None, None, <<"1">>, None, FALSE),
      Req(<<" ">>, None, None, None, None, FALSE),
      Req(LongText, None, None, None, None, FALSE),
      Req(<<"a">>, None, None, <<"0">>, None, FALSE),
      Req(<<"a">>, None, None, <<"a">>, None, FALSE),
      Req(<<"a">>, None, None, None, <<"1", "0", "1">>, FALSE) }

Requests == ValidRequests \cup InvalidRequests

(***************************************************************************)
(* The service: worker threads answering requests, the application being   *)
(* created anew, the table going away.                                     *)
(***************************************************************************)
\* one more search request has passed validation, or not
Counted(r) == validated' = validated + (IF Valid(r) THEN 1 ELSE 0)

\* the latest access of key k is now of kind how
Touch(t, k, how) ==
    LET IsNot(e) == e.k # k
    IN  Append(SelectSeq(t, IsNot), [k |-> k, how |-> how])

\* the step of thread p as an access: a request answered from the cache is a
\* hit of its key, a key the cache holds after the call and not before is an
\* insert, everything else is no access
Logged(p) ==
    touched' =
        IF pc[p] = "idle" /\ pc'[p] = "done" /\ resp'[p].status = 200
        THEN Touch(touched, key'[p], "hit")
        ELSE IF pc[p] = "computing" /\ ~InCache(cache, key[p]) /\ InCache(cache', key[p])
             THEN Touch(touched, key[p], "insert")
             ELSE touched

NoSession == [on |-> FALSE, actor |-> None, director |-> None, genre |-> None,
              limit |-> None, page |-> 0]

Init ==
    /\ DF \in {[loaded |-> TRUE, rows |-> t] : t \in Tables}
    /\ DF_ID \in Addrs
    /\ cache = <<>>
    /\ hits = 0
    /\ misses = 0
    /\ pc = [p \in Procs |-> "idle"]
    /\ req = [p \in Procs |-> NoReq]
    /\ key = [p \in Procs |-> NoKey]
    /\ resp = [p \in Procs |-> NoResp]
    /\ session = NoSession
    /\ acc = <<>>
    /\ view = NoView
    /\ validated = 0
    /\ touched = <<>>

\* a malformed request touches nothing the threads share, so it is enough
\* that thread 1 takes them
Request ==
    /\ hits + misses < MaxCalls
    /\ \E p \in Procs :
          \E r \in (IF p = 1 THEN Requests ELSE ValidRequests) :
              Search(p, r) /\ Counted(r) /\ Logged(p)
    /\ UNCHANGED <<session, acc, view>>

Execute ==
    /\ \E p \in Procs : Run(p) /\ Logged(p)
    /\ UNCHANGED <<session, acc, view, validated>>

Respond ==
    /\ \E p \in Procs : Finish(p)
    /\ UNCHANGED <<session, acc, view, validated, touched>>

NewApp ==
    /\ \E t \in Tables, a \in Addrs : create_app(t, a)
    /\ UNCHANGED <<session, acc, view, validated, touched>>

Unload == DropTable /\ UNCHANGED <<session, acc, view, validated, touched>>

Next == Request \/ Execute \/ Respond \/ NewApp \/ Unload

Spec == Init /\ [][Next]_vars

(***************************************************************************)
(* A client paging through one query: pages 1, 2, ... of a fixed filter    *)
(* and limit against a fixed table, the rows received put end to end.      *)
(***************************************************************************)
TableQ == << Row(1, <<"a", "b">>, <<"a">>, <<"a">>),
             Row(2, <<"A", ".">>, <<"b">>, <<"a">>),
             Row(3, <<"sz", "a">>, <<"a">>, <<"b">>) >>

TableR == << Row(1, <<"a">>, <<"a">>, <<"a">>),
             Row(2, <<"b">>, <<".">>, <<"B">>),
             Row(3, <<"a", "s", "s">>, <<"a">>, <<"a">>),
             Row(4, <<"A">>, <<"a">>, <<"sz">>) >>

QTables == {TableQ, TableR, <<>>}

QActors == {None, <<"a">>, <<"A">>, <<"b">>, <<".">>, <<"(">>, <<"sz">>,
            <<"S", "S">>, <<" ", "a", " ">>}
QDirectors == {None, <<"a">>, <<".">>}
QGenres == {None, <<"a">>, <<"B">>, <<"sz">>}
QLimits == {None, <<"1">>, <<"2">>, <<"3">>}

PageText(n) == << CHOOSE c \in Digits : DigitVal(c) = n >>

SessionReq(page) ==
    Req(session.actor, session.director, session.genre, PageText(page),
        session.limit, FALSE)

InitQ ==
    /\ DF \in {[loaded |-> TRUE, rows |-> t] : t \in QTables}
    /\ DF_ID \in Addrs
    /\ cache = <<>>
    /\ hits = 0
    /\ misses = 0
    /\ pc = [p \in Procs |-> "idle"]
    /\ req = [p \in Procs |-> NoReq]
    /\ key = [p \in Procs |-> NoKey]
    /\ resp = [p \in Procs |-> NoResp]
    /\ session \in {[on |-> TRUE, actor |-> a, director |-> d, genre |-> g,
                     limit |-> l, page |-> 0] :
                    a \in QActors, d \in QDirectors, g \in QGenres, l \in QLimits}
    /\ acc = <<>>
    /\ view = NoView
    /\ validated = 0
    /\ touched = <<>>

FetchPage ==
    /\ session.page < MaxPage
    /\ Search(1, SessionReq(session.page + 1))
    /\ Counted(SessionReq(session.page + 1))
    /\ Logged(1)
    /\ session' = [session EXCEPT !.page = @ + 1]
    /\ UNCHANGED <<acc, view>>

Evaluate == Run(1) /\ Logged(1) /\ UNCHANGED <<session, acc, view, validated>>

Receive ==
    /\ Finish(1)
    /\ acc' = IF resp[1].status = 200 THEN acc \o resp[1].results ELSE acc
    /\ UNCHANGED <<session, view, validated, touched>>

NextQ == FetchPage \/ Evaluate \/ Receive

SpecQ == InitQ /\ [][NextQ]_vars

(***************************************************************************)
(* The service with all its endpoints: worker threads answering searches   *)
(* on a fixed table while a monitoring client asks for home, stats,        *)
(* metrics and health, one request at a time.                              *)
(***************************************************************************)
Show(title, type, release_year, cast, director, listed_in) ==
    [title |-> title, type |-> type, release_year |-> release_year,
     cast |-> cast, director |-> director, listed_in |-> listed_in]

\* listed_in: "a, b", "b", "c, b"
TableG == << Show(1, "Movie", 2001, <<"a">>, <<"b">>, <<"a", ",", " ", "b">>),
             Show(2, "TV Show", 1999, <<"b">>, <<"a">>, <<"b">>),
             Show(3, "Movie", 2020, <<"a", "b">>, <<"b">>, <<"c", ",", " ", "b">>) >>

\* listed_in: "a", "" (no genre given: fill_null("")), "b, a"
TableH == << Show(1, "Movie", 2010, <<"a">>, <<"a">>, <<"a">>),
             Show(2, "Movie", 2011, <<"b">>, <<"a">>, <<>>),
             Show(3, "TV Show", 2012, <<"b">>, <<"b">>, <<"b", ",", " ", "a">>) >>

MTables == {TableG, TableH}

MRequests ==
    { Req(<<"a">>, None, None, None, None, FALSE),
      Req(<<"b">>, None, None, None, None, FALSE),
      Req(None, <<"a">>, None, <<"1">>, <<"1">>, FALSE),
      Req(None, None, None, None, None, FALSE) }

InitM ==
    /\ DF \in {[loaded |-> TRUE, rows |-> t] : t \in MTables}
    /\ DF_ID = 1
    /\ cache = <<>>
    /\ hits = 0
    /\ misses = 0
    /\ pc = [p \in Procs |-> "idle"]
    /\ req = [p \in Procs |-> NoReq]
    /\ key = [p \in Procs |-> NoKey]
    /\ resp = [p \in Procs |-> NoResp]
    /\ session = NoSession
    /\ acc = <<>>
    /\ view = NoView
    /\ validated = 0
    /\ touched = <<>>

\* what the search side of the service leaves alone
Watching == UNCHANGED <<DF, DF_ID, cache, hits, misses, pc, req, key, resp,
                        session, acc, validated, touched>>

SearchM ==
    /\ validated < MaxSearches
    /\ \E p \in Procs : \E r \in MRequests : Search(p, r) /\ Counted(r) /\ Logged(p)
    /\ UNCHANGED <<session, acc, view>>

Home == view = NoView /\ view' = home /\ Watching

Stats ==
    /\ view = NoView
    /\ \E order \in Orders(Unique(explode(DF.rows))) : view' = stats(DF, order)
    /\ Watching

Metrics == view = NoView /\ view' = metrics(cache, hits, misses) /\ Watching

Health == view = NoView /\ view' = health(DF) /\ Watching

\* the response of the monitoring request has been sent
Sent == view # NoView /\ view' = NoView /\ Watching

NextM == SearchM \/ Execute \/ Respond \/ Home \/ Stats \/ Metrics \/ Health \/ Sent

SpecM == InitM /\ [][NextM]_vars

(***************************************************************************)
(* The validation of search(): requests over wide sets of raw parameter    *)
(* values, absent (None), empty, blank, well-formed and malformed, with    *)
(* and without a parameter outside the allowed five.                       *)
(***************************************************************************)
\* exactly max_length characters, and the same with blanks around
FullText == [i \in 1..max_length |-> "a"]
PaddedText == <<" ">> \o FullText \o <<" ">>

VActors == {None, <<>>, <<" ">>, <<"a">>, <<" ", "a", " ">>, FullText, PaddedText, LongText}
VDirectors == {None, <<>>, <<" ", " ">>, <<"b">>, LongText}
VGenres == {None, <<>>, <<" ">>, <<"a">>, <<" ">> \o LongText}
VPages == {None, <<>>, <<"0">>, <<"1">>, <<"2">>, <<"-", "1">>, <<"+", "1">>,
           <<" ", "1">>, <<"a">>, <<"1", ".", "5">>, <<" ">>}
VLimits == {None, <<>>, <<"0">>, <<"1">>, <<"1", "0", "0">>, <<"1", "0", "1">>,
            <<"-", "1">>, <<"x">>}

\* every combination of the three predicates, and every combination of page
\* and limit with no predicate, a good one and a blank one
VRequests ==
    {Req(a, d, g, None, None, e) :
        a \in VActors, d \in VDirectors, g \in VGenres, e \in BOOLEAN}
    \cup {Req(a, None, None, p, l, e) :
            a \in {None, <<"a">>, <<" ">>}, p \in VPages, l \in VLimits, e \in BOOLEAN}

InitV ==
    /\ DF = [loaded |-> TRUE, rows |-> TableA]
    /\ DF_ID = 1
    /\ cache = <<>>
    /\ hits = 0
    /\ misses = 0
    /\ pc = [p \in Procs |-> "idle"]
    /\ req = [p \in Procs |-> NoReq]
    /\ key = [p \in Procs |-> NoKey]
    /\ resp = [p \in Procs |-> NoResp]
    /\ session = NoSession
    /\ acc = <<>>
    /\ view = NoView
    /\ validated = 0
    /\ touched = <<>>

Submit ==
    /\ validated < MaxValid
    /\ \E r \in VRequests : Search(1, r) /\ Counted(r) /\ Logged(1)
    /\ UNCHANGED <<session, acc, view>>

NextV == Submit \/ Execute \/ Respond

SpecV == InitV /\ [][NextV]_vars

(***************************************************************************)
(* Searches that fail: worker threads asking for a query that works, for   *)
(* one whose pattern does not compile, and for one more, while the table   *)
(* goes away and a new application brings one back.                        *)
(***************************************************************************)
FRequests ==
    { Req(<<"a">>, None, None, None, None, FALSE),
      Req(<<"(">>, None, None, None, None, FALSE),
      Req(None, <<"b">>, None, <<"1">>, <<"1">>, FALSE) }

InitF ==
    /\ DF = [loaded |-> TRUE, rows |-> TableA]
    /\ DF_ID \in Addrs
    /\ cache = <<>>
    /\ hits = 0
    /\ misses = 0
    /\ pc = [p \in Procs |-> "idle"]
    /\ req = [p \in Procs |-> NoReq]
    /\ key = [p \in Procs |-> NoKey]
    /\ resp = [p \in Procs |-> NoResp]
    /\ session = NoSession
    /\ acc = <<>>
    /\ view = NoView
    /\ validated = 0
    /\ touched = <<>>

SearchF ==
    /\ hits + misses < MaxCalls
    /\ \E p \in Procs : \E r \in FRequests : Search(p, r) /\ Counted(r) /\ Logged(p)
    /\ UNCHANGED <<session, acc, view>>

NextF == SearchF \/ Execute \/ Respond \/ NewApp \/ Unload

SpecF == InitF /\ [][NextF]_vars

(***************************************************************************)
(* Properties.                                                             *)
(***************************************************************************)
\* thread p takes a request in this step
Takes(p) == pc[p] = "idle" /\ pc'[p] # "idle"

\* the arguments of the call thread p is in
ArgsOf(p) == Validate(req[p])

Answered(p) == pc[p] = "done" /\ resp[p].status = 200

\* C1: a valid query repeated while its entry is resident is answered from the
\* cache: no computation runs, the answer is the cached value, which is the
\* answer of the request that stored it and does not change while resident,
\* hits grows by exactly 1 and misses stays.
C1_RepeatIsHit ==
    [][\A p \in Procs :
        /\ (Takes(p) /\ Valid(req'[p]) /\ InCache(cache, KeyOf(req'[p], DF_ID)))
              => /\ pc'[p] = "done"
                 /\ resp'[p] = CacheValue(cache, KeyOf(req'[p], DF_ID))
                 /\ hits' = hits + 1
                 /\ misses' = misses
        /\ (pc[p] = "computing" /\ pc'[p] = "done" /\ resp'[p].status = 200
               /\ ~InCache(cache, key[p]))
              => (InCache(cache', key[p]) /\ CacheValue(cache', key[p]) = resp'[p])
        /\ \A i \in 1..Len(cache) :
              InCache(cache', cache[i].k) => CacheValue(cache', cache[i].k) = cache[i].v
      ]_vars

\* a repeated query has just been answered from the cache
C1_Witness ==
    \E p \in Procs :
        /\ Answered(p)
        /\ \A q \in Procs \ {p} : pc[q] = "idle"
        /\ hits = 1 /\ misses = 1 /\ Len(cache) = 1
        /\ resp[p].total > 0

\* the five query fields of a key, the text ones trimmed and case-folded
Fold(v) == IF v = None THEN None ELSE casefold(strip(v))
Normal(k) == <<Fold(k[1]), Fold(k[2]), Fold(k[3]), k[4], k[5], k[6]>>

\* C2: requests equal after trimming and case folding share one cache key:
\* the cache never holds two entries whose keys differ only in letter case.
C2_OneEntryPerFoldedQuery ==
    \A i, j \in 1..Len(cache) :
        Normal(cache[i].k) = Normal(cache[j].k) => i = j

\* C3: a result handed out while a table is installed is the result of the
\* query on that table, never one computed on a table installed before.
C3_NoStaleResult ==
    \A p \in Procs :
        (Answered(p) /\ DF.loaded)
            => resp[p] = Call(DF, key[p])

\* C4: a request that fails validation is answered 400 at once and leaves the
\* cache, its order and both counters as they were.
C4_InvalidTouchesNothing ==
    [][\A p \in Procs :
        (Takes(p) /\ ~Valid(req'[p]))
            => /\ pc'[p] = "done"
               /\ resp'[p].status = 400
               /\ cache' = cache
               /\ hits' = hits
               /\ misses' = misses
      ]_vars

\* a pagination error has been answered while the cache holds an entry
C4_Witness ==
    /\ pc[1] = "done"
    /\ resp[1].status = 400
    /\ resp[1].error = "Limit must be between 1 and 100"
    /\ Len(cache) > 0

\* s occurs in text, character for character
Substring(text, s) ==
    \E i \in 0..(Len(text) - Len(s)) : SubSeq(text, i + 1, i + Len(s)) = s

\* the rows for which every supplied predicate holds under Test, in table order
RowsWhere(Test(_, _), rows, actor, director, genre) ==
    LET Keep(row) == /\ Truthy(actor) => Test(row.cast, actor)
                     /\ Truthy(director) => Test(row.director, director)
                     /\ Truthy(genre) => Test(row.listed_in, genre)
    IN  SelectSeq(rows, Keep)

\* the part of rows that page number page of size limit shows
PageOf(rows, page, limit) ==
    SubSeq(rows, (page - 1) * limit + 1, Min(Len(rows), page * limit))

FoldedContains(value, predicate) == Substring(casefold(value), casefold(predicate))

LoweredContains(value, predicate) == Substring(lower(value), lower(predicate))

\* C5: the rows matched are the table rows, in table order, whose cast,
\* director and listed_in contain, after case folding, the case-folded actor,
\* director and genre supplied; total counts them and results is their page.
C5_MatchedRows ==
    Answered(1) =>
        LET a == ArgsOf(1)
            m == RowsWhere(FoldedContains, DF.rows, a.actor, a.director, a.genre)
        IN  /\ resp[1].total = Len(m)
            /\ resp[1].results = PageOf(m, a.page, a.limit)

\* C6: every predicate that passes validation, metacharacters included, is
\* searched for verbatim: the search succeeds and matches the rows whose column
\* holds those very characters, letter case aside.
C6_LiteralPredicates ==
    (pc[1] = "done" /\ Valid(req[1])) =>
        LET a == ArgsOf(1)
            m == RowsWhere(LoweredContains, DF.rows, a.actor, a.director, a.genre)
        IN  /\ resp[1].status = 200
            /\ resp[1].total = Len(m)
            /\ resp[1].results = PageOf(m, a.page, a.limit)

Recased(F(_), v) == IF Truthy(v) THEN F(v) ELSE v

\* the query of thread 1 again, its predicates put through F
SearchRecased(F(_)) ==
    LET a == ArgsOf(1)
    IN  Compute(DF, Recased(F, a.actor), Recased(F, a.director), Recased(F, a.genre),
                a.page, a.limit)

\* C7: a search with its predicates upper-cased, or lower-cased, returns the
\* total and the results of the search as given.
C7_CaseInsensitive ==
    Answered(1) =>
        /\ SearchRecased(upper).total = resp[1].total
        /\ SearchRecased(upper).results = resp[1].results
        /\ SearchRecased(lower).total = resp[1].total
        /\ SearchRecased(lower).results = resp[1].results

\* C8: when the last page of a query arrives, the rows of pages 1 .. pages put
\* end to end are the filtered rows of the table, each once and in table order;
\* a query with no page has no filtered row.
C8_PagesPartition ==
    (Answered(1) /\ resp[1].page >= resp[1].pages) =>
        LET a == ArgsOf(1)
            all == FilterRows(DF.rows, a.actor, a.director, a.genre)
        IN  /\ resp[1].page = resp[1].pages => acc \o resp[1].results = all
            /\ resp[1].pages = 0 => all = <<>>
            /\ resp[1].page > resp[1].pages => acc = all

\* the third and last page of a three-row result has arrived
C8_Witness ==
    /\ Answered(1)
    /\ resp[1].page = 3 /\ resp[1].pages = 3
    /\ Len(acc) = 2 /\ Len(resp[1].results) = 1

\* C9: pages is 0 exactly when total is 0, and otherwise the least number of
\* pages of size limit that hold total rows.
C9_PageCount ==
    Answered(1) =>
        /\ resp[1].pages = 0 <=> resp[1].total = 0
        /\ resp[1].total > 0 =>
              /\ resp[1].pages * resp[1].limit >= resp[1].total
              /\ (resp[1].pages - 1) * resp[1].limit < resp[1].total

\* three rows in pages of two
C9_Witness ==
    /\ Answered(1)
    /\ resp[1].total = 3 /\ resp[1].limit = 2 /\ resp[1].pages = 2

Max(a, b) == IF a > b THEN a ELSE b

CachedKeys(c) == {c[i].k : i \in 1..Len(c)}

\* thread p stores the result of its call in this step
Stores(p) ==
    /\ pc[p] = "computing" /\ pc'[p] = "done"
    /\ ~InCache(cache, key[p]) /\ InCache(cache', key[p])

\* the monitoring client gets the answer of endpoint in this step
Views(endpoint) == view = NoView /\ view'.endpoint = endpoint

\* C11: the cache, empty at first, never holds more entries than its capacity,
\* all of different keys; the size metrics reports is the number of keys cached when
\* it is asked; a store into a full cache removes exactly one entry and leaves
\* the cache full.
C11_CacheBounded ==
    [][/\ Len(cache') <= maxsize
       /\ Cardinality(CachedKeys(cache')) = Len(cache')
       /\ Views("metrics") =>
             /\ view'.status = 200
             /\ view'.size = Cardinality(CachedKeys(cache))
             /\ view'.maxsize = maxsize
       /\ \A p \in Procs :
             (Stores(p) /\ Len(cache) = maxsize) =>
                 /\ Cardinality(CachedKeys(cache) \ CachedKeys(cache')) = 1
                 /\ CachedKeys(cache') \ CachedKeys(cache) = {key[p]}
                 /\ Len(cache') = maxsize
      ]_vars

\* metrics reports a full cache from which the entry of thread 1's answer has
\* been evicted
C11_Witness ==
    /\ pc[1] = "done" /\ resp[1].status = 200
    /\ ~InCache(cache, key[1])
    /\ hits = 0
    /\ view.endpoint = "metrics"
    /\ view.size = maxsize
    /\ Len(cache) = maxsize

\* where key k stands in the history of accesses
Place(t, k) == CHOOSE i \in 1..Len(t) : t[i].k = k

\* C12: every cached key has been accessed, and when a store into a full cache
\* evicts an entry, the latest access of that entry, insert or hit, is older
\* than the latest access of every entry that stays.
C12_EvictsLeastRecent ==
    [][/\ \A k \in CachedKeys(cache') : \E i \in 1..Len(touched') : touched'[i].k = k
       /\ \A p \in Procs :
             (Stores(p) /\ Len(cache) = maxsize) =>
                 \A e \in CachedKeys(cache) \ CachedKeys(cache') :
                     \A k \in CachedKeys(cache) \ {e} :
                         Place(touched, e) < Place(touched, k)
      ]_vars

\* an entry was hit after another one was inserted, and the store that came
\* next evicted the other one and kept the one hit
C12_Witness ==
    /\ Len(touched) = 3
    /\ touched[1].how = "insert" /\ ~InCache(cache, touched[1].k)
    /\ touched[2].how = "hit" /\ InCache(cache, touched[2].k)
    /\ touched[3].how = "insert" /\ InCache(cache, touched[3].k)
    /\ hits = 1 /\ misses = 3

\* some thread takes a search request that passes validation in this step
TakesValid == \E p \in Procs : Takes(p) /\ Valid(req'[p])

\* C13: hits and misses never decrease; a step in which a search request
\* passes validation adds exactly 1 to misses when its key is not cached and
\* exactly 1 to hits when it is, and leaves the other counter alone; no other
\* step, and none of home, stats, metrics and health, changes either counter;
\* hits + misses is the number of search requests that have passed validation.
C13_CountersExact ==
    [][/\ hits' >= hits /\ misses' >= misses
       /\ \A p \in Procs :
             (Takes(p) /\ Valid(req'[p])) =>
                 IF InCache(cache, KeyOf(req'[p], DF_ID))
                 THEN hits' = hits + 1 /\ misses' = misses
                 ELSE misses' = misses + 1 /\ hits' = hits
       /\ ~TakesValid => (hits' = hits /\ misses' = misses)
       /\ \A e \in {"home", "stats", "metrics", "health"} :
             Views(e) => (hits' = hits /\ misses' = misses)
       /\ hits' + misses' = validated'
      ]_vars

\* metrics is asked while two searches that both missed are computing, after
\* a hit and a miss before them
C13_Witness ==
    /\ pc[1] = "computing" /\ pc[2] = "computing"
    /\ view.endpoint = "metrics"
    /\ view.hits = 1 /\ view.misses = 3
    /\ validated = 4

\* C14: while the table is absent every valid search request is answered 503
\* and carries no result, whatever the cache holds.  (The table comes and goes
\* only between requests, so a request answered while the table is absent was
\* made while it was absent.)
C14_AbsentTableIs503 ==
    \A p \in Procs :
        (pc[p] = "done" /\ Valid(req[p]) /\ ~DF.loaded)
            => (resp[p].status = 503 /\ resp[p].results = <<>>)

\* the parameter is in the query string
Present(v) == v # None

\* a text parameter that is present and, trimmed, empty or too long
BadText(v) == Present(v) /\ (strip(v) = <<>> \/ Len(strip(v)) > max_length)

\* C15: a search request in which actor, director or genre is present and
\* empty after trimming, or longer than 100 characters after trimming, is
\* answered 400, whatever its other parameters are.
C15_BadTextRejected ==
    (pc[1] # "idle"
       /\ (BadText(req[1].actor) \/ BadText(req[1].director) \/ BadText(req[1].genre)))
        => (pc[1] = "done" /\ resp[1].status = 400)

\* the request supplies no predicate: each of actor, director and genre is
\* absent or has no value
NoPredicate(r) == ~Truthy(r.actor) /\ ~Truthy(r.director) /\ ~Truthy(r.genre)

\* C16: a search request that supplies none of actor, director and genre is
\* answered 400 at once, whatever its page and limit are: no computation runs
\* and the cache and its counters stay as they were.
C16_NoPredicateNoSearch ==
    [][(Takes(1) /\ NoPredicate(req'[1]))
          => /\ pc'[1] = "done"
             /\ resp'[1].status = 400
             /\ resp'[1].results = <<>>
             /\ cache' = cache /\ hits' = hits /\ misses' = misses
             /\ touched' = touched
      ]_vars

\* a request with a good page and limit and no predicate has been refused
\* while the cache holds an entry
C16_Witness ==
    /\ pc[1] = "done"
    /\ req[1] = Req(None, None, None, <<"2">>, <<"1", "0", "0">>, FALSE)
    /\ resp[1].status = 400
    /\ resp[1].error = "At least one search parameter required"
    /\ Len(cache) = 1

\* nothing but page and limit can make the request fail: no unknown
\* parameter, a predicate supplied, every text accepted
PagingDecides(r) ==
    /\ ~r.extra
    /\ ~NoPredicate(r)
    /\ validate_search_param(r.actor).err = ""
    /\ validate_search_param(r.director).err = ""
    /\ validate_search_param(r.genre).err = ""

\* the value is absent, or it parses as an integer that is at least 1
GoodPage(v) == ~Present(v) \/ (int(v).ok /\ int(v).val >= 1)

\* the value is absent, or it parses as an integer in 1..100
GoodLimit(v) == ~Present(v) \/ (int(v).ok /\ int(v).val >= 1 /\ int(v).val <= MaxLimit)

\* the number a request carries in v: the default when v is absent
NumberUsed(v, default) == IF Present(v) THEN int(v).val ELSE default

\* C17: where page and limit decide, a request is accepted exactly when its
\* page is absent or parses as an integer >= 1 and its limit is absent or
\* parses as an integer in 1..100, and is answered 400 otherwise; an accepted
\* request is answered with the page and limit it carries, 1 for an absent
\* page and 20 for an absent limit.
C17_PageAndLimit ==
    (pc[1] = "done" /\ PagingDecides(req[1])) =>
        IF GoodPage(req[1].page) /\ GoodLimit(req[1].limit)
        THEN /\ resp[1].status = 200
             /\ resp[1].page = NumberUsed(req[1].page, DefaultPage)
             /\ resp[1].limit = NumberUsed(req[1].limit, DefaultLimit)
        ELSE resp[1].status = 400

\* C18: a search request that carries a parameter outside actor, director,
\* genre, page and limit is answered with the unsupported-parameter 400, which
\* lists these five, whatever else is wrong with it: no predicate, a text that
\* does not validate, a page or a limit that does not.
C18_UnknownParameterFirst ==
    (pc[1] # "idle" /\ req[1].extra) =>
        /\ pc[1] = "done"
        /\ resp[1].status = 400
        /\ resp[1].error = "Unsupported query parameter(s)"
        /\ resp[1].allowed_params = {"actor", "director", "genre", "page", "limit"}

\* a request with an unknown parameter, a blank actor as its only predicate, a
\* page of 0 and a limit that is no number has been refused
C18_Witness ==
    /\ pc[1] = "done"
    /\ req[1] = Req(<<" ">>, None, None, <<"0">>, <<"x">>, TRUE)
    /\ resp[1].status = 400
    /\ resp[1].error = "Unsupported query parameter(s)"

\* where token t comes first in the token stream
FirstSeen(tokens, t) ==
    CHOOSE i \in 1..Len(tokens) : tokens[i] = t /\ \A j \in 1..(i - 1) : tokens[j] # t

\* token s ranks before token t: more occurrences, or as many and seen earlier
Ahead(tokens, s, t) ==
    \/ Count(tokens, s) > Count(tokens, t)
    \/ Count(tokens, s) = Count(tokens, t) /\ FirstSeen(tokens, s) < FirstSeen(tokens, t)

\* top lists, with their counts, the first n genres of the token stream by
\* decreasing count, ties in the order first seen
IsTop(top, tokens, n) ==
    /\ Len(top) = Min(n, Cardinality(Unique(tokens)))
    /\ \A i \in 1..Len(top) :
          /\ top[i].listed_in \in Unique(tokens)
          /\ top[i].count = Count(tokens, top[i].listed_in)
    /\ \A i, j \in 1..Len(top) :
          i < j => Ahead(tokens, top[i].listed_in, top[j].listed_in)
    /\ \A t \in Unique(tokens) \ {top[i].listed_in : i \in 1..Len(top)} :
          \A i \in 1..Len(top) : Ahead(tokens, top[i].listed_in, t)

\* C19: the top_genres of a stats response are the most frequent genre tokens
\* of the table, at most as many as stats keeps, each with its number of
\* occurrences in the listed_in values split on ", ", by decreasing count with
\* ties in first-seen order, and no token left out has a higher count than one
\* listed.
C19_TopGenres ==
    (view.endpoint = "stats" /\ view.status = 200)
        => IsTop(view.top_genres, explode(DF.rows), TopGenres)

\* the entries the cache holds for key k
EntriesFor(c, k) == {i \in 1..Len(c) : c[i].k = k}

\* C20: a valid request whose key another thread is computing, and has not
\* stored yet, is a miss and computes too; when a computation returns, the
\* cache holds exactly one entry for its key, and its result equals the one a
\* thread that asked for the same key is holding.
C20_NoDeduplication ==
    [][\A p, q \in Procs :
        p # q =>
          /\ (Takes(p) /\ Valid(req'[p]) /\ pc[q] = "computing"
                /\ key[q] = KeyOf(req'[p], DF_ID) /\ ~InCache(cache, key[q]))
                => /\ pc'[p] = "computing"
                   /\ misses' = misses + 1
                   /\ hits' = hits
          /\ (pc[p] = "computing" /\ pc'[p] = "done" /\ resp'[p].status = 200)
                => /\ Cardinality(EntriesFor(cache', key[p])) = 1
                   /\ (pc[q] = "done" /\ key[q] = key[p]) => resp'[p] = resp[q]
      ]_vars

\* two requests for the same key have both missed and both computed: two
\* misses, no hit, one entry, equal answers
C20_Witness ==
    /\ pc[1] = "done" /\ pc[2] = "done"
    /\ key[1] = key[2]
    /\ resp[1].status = 200 /\ resp[1].total > 0
    /\ resp[1] = resp[2]
    /\ misses = 2 /\ hits = 0
    /\ Len(cache) = 1

\* the call of thread p ends in this step, and fails
Fails(p) == pc[p] = "computing" /\ pc'[p] = "done" /\ resp'[p].status # 200

\* thread p holds the answer of a search that failed
Failed(p) == pc[p] = "done" /\ key[p] # NoKey /\ resp[p].status \in {500, 503}

\* C21: a search whose computation fails, for want of the table or with an
\* error raised by the filter, leaves the cache as it was, size and keys; the
\* cache never holds a failure; and a request for the key of a search that has
\* just failed is a miss and runs the computation again.
C21_FailureNotCached ==
    [][/\ \A p \in Procs :
             Fails(p) => /\ cache' = cache
                         /\ Len(cache') = Len(cache)
                         /\ CachedKeys(cache') = CachedKeys(cache)
                         /\ ~InCache(cache', key[p])
       /\ \A i \in 1..Len(cache') : cache'[i].v.status = 200
       /\ \A p, q \in Procs :
             (Takes(p) /\ Valid(req'[p]) /\ Failed(q) /\ key[q] = KeyOf(req'[p], DF_ID))
                 => /\ pc'[p] = "computing"
                    /\ misses' = misses + 1
                    /\ hits' = hits
      ]_vars

\* a search has failed on a pattern that does not compile, the cache holding
\* an entry, and the same request made again is computing
C21_Witness ==
    /\ Failed(1) /\ resp[1].status = 500
    /\ pc[2] = "computing" /\ key[2] = key[1]
    /\ Len(cache) = 1
    /\ misses = 3

====
